---- MODULE Spec2Model ----
(***************************************************************************)
(* Model of src/app.py: the page classifier of a medical PDF (certificate  *)
(* of aptitude / medical report / clinical history) and the Streamlit run  *)
(* that partitions the pages and offers the derived documents.             *)
(*                                                                         *)
(* Text is modelled at character level.  A Python str is a sequence of     *)
(* characters, a character is a one-character TLA+ string, and a non-ASCII *)
(* character is written by its code point ("U+00E9" is e-acute).  The      *)
(* Python value None is PyNone.                                            *)
(***************************************************************************)
EXTENDS Integers, Sequences, FiniteSets, TLC

VARIABLES
    \* ---- the Streamlit run (module level of app.py) ----
    pc,                 \* position of the run in the script
    STRICT_START,       \* Config, line 13
    RELAXED_FALLBACK,   \* Config, line 14
    uploaded,           \* the uploaded file, PyNone before an upload
    total,              \* len(reader.pages)
    i,                  \* loop index of classify_pages
    extracted,          \* what extract_text() gave for the pages read so far
    cert_set, info_set, labels_log,
    hist_set, cert, info, hist,
    pdf_cert, pdf_info, pdf_hist, pdf_legajo,
    offered,            \* download buttons shown, in order
    zip_entries,        \* entries written to clasificados.zip, in order
    messages,           \* st.info / st.error / st.warning shown, in order
    \* ---- normalize_text_hard applied to an input, and to its own output ----
    norm_pc, norm_in, norm_once, norm_twice,
    \* ---- search_cert_proximity applied to a normalized page text ----
    prox_pc, prox_in, prox_out

runVars == <<pc, STRICT_START, RELAXED_FALLBACK, uploaded, total, i, extracted,
             cert_set, info_set, labels_log, hist_set, cert, info, hist,
             pdf_cert, pdf_info, pdf_hist, pdf_legajo, offered, zip_entries,
             messages>>
normVars == <<norm_pc, norm_in, norm_once, norm_twice>>
proxVars == <<prox_pc, prox_in, prox_out>>
vars == <<runVars, normVars, proxVars>>

(***************************************************************************)
(* Bounds of the model and constants of the program.                       *)
(***************************************************************************)
MaxPages == 3
MaxLen == 3
MaxWords == 4

CERT_NEAR_WINDOW == 200
TOP_LINES_K == 8

(***************************************************************************)
(* Characters.                                                             *)
(***************************************************************************)
PyNone == <<"<None>">>

LowerChars == <<"a","b","c","d","e","f","g","h","i","j","k","l","m",
                "n","o","p","q","r","s","t","u","v","w","x","y","z">>
UpperChars == <<"A","B","C","D","E","F","G","H","I","J","K","L","M",
                "N","O","P","Q","R","S","T","U","V","W","X","Y","Z">>
DigitChars == <<"0","1","2","3","4","5","6","7","8","9">>

Range(f) == {f[x] : x \in DOMAIN f}

AsciiLower == Range(LowerChars)
AsciiUpper == Range(UpperChars)
AsciiDigit == Range(DigitChars)

\* the class [a-zA-Z0-9] of line 42
AsciiAlnum == AsciiLower \cup AsciiUpper \cup AsciiDigit

\* Non-ASCII characters of the model: e-acute, E-acute, n-tilde (letters with
\* a canonical decomposition), the degree sign and the no-break space (no
\* decomposition), and the combining acute accent and tilde (category Mn).
CombiningMarks == {"U+0301", "U+0303"}
NonAsciiLetters == {"U+00E9", "U+00C9", "U+00F1"}

\* unicodedata.normalize("NFD", ch) for one character
NFDChar(ch) ==
    CASE ch = "U+00E9" -> <<"e", "U+0301">>
      [] ch = "U+00C9" -> <<"E", "U+0301">>
      [] ch = "U+00F1" -> <<"n", "U+0303">>
      [] OTHER -> <<ch>>

\* unicodedata.category(ch) == "Mn"
IsMn(ch) == ch \in CombiningMarks

\* the class \s of re on str, and the characters str.strip() removes
WhitespaceChars == {" ", "\n", "\r", "\t", "U+00A0"}
IsSpace(ch) == ch \in WhitespaceChars

\* the class \w of re on str: letters, digits and the underscore
IsWordChar(ch) == ch \in AsciiAlnum \cup NonAsciiLetters \cup {"_"}

\* str.lower() for one character
LowerChar(ch) ==
    CASE ch \in AsciiUpper -> LowerChars[CHOOSE k \in 1..26 : UpperChars[k] = ch]
      [] ch = "U+00C9" -> "U+00E9"
      [] OTHER -> ch

(***************************************************************************)
(* normalize_text_hard, lines 35-45.                                       *)
(***************************************************************************)
\* unicodedata.normalize("NFD", s): the decompositions of the characters, in
\* order.  A decomposition has one or two characters, so the result is the
\* text with two slots per character, the empty slots taken out.
NFD(s) ==
    LET slot(k) == LET d == NFDChar(s[(k + 1) \div 2])
                   IN  IF k % 2 = 1 THEN d[1]
                       ELSE IF Len(d) > 1 THEN d[2] ELSE ""
        filled(c) == c # ""
    IN  SelectSeq([k \in 1..(2 * Len(s)) |-> slot(k)], filled)

\* "".join(ch for ch in s if unicodedata.category(ch) != "Mn")
StripMn(s) == LET keep(ch) == ~IsMn(ch) IN SelectSeq(s, keep)

\* re.sub(<class>+, " ", s): every maximal run of characters of the class
\* becomes one space; in[k] tells whether s[k] is of the class
SubRuns(s, in) ==
    LET first(k) == ~in[k] \/ k = 1 \/ ~in[k - 1]
        idx == SelectSeq([k \in 1..Len(s) |-> k], first)
    IN  [j \in 1..Len(idx) |-> IF in[idx[j]] THEN " " ELSE s[idx[j]]]

\* the characters of s that are not of [a-zA-Z0-9] (line 42), that are of \s
\* (line 44)
NotAlnum(s) == [k \in 1..Len(s) |-> s[k] \notin AsciiAlnum]
Spaces(s) == [k \in 1..Len(s) |-> IsSpace(s[k])]

LowerStr(s) == [k \in 1..Len(s) |-> LowerChar(s[k])]

\* str.strip()
Strip(s) ==
    IF \A k \in 1..Len(s) : IsSpace(s[k]) THEN <<>>
    ELSE LET lo == CHOOSE k \in 1..Len(s) :
                       ~IsSpace(s[k]) /\ \A m \in 1..(k - 1) : IsSpace(s[m])
             hi == CHOOSE k \in 1..Len(s) :
                       ~IsSpace(s[k]) /\ \A m \in (k + 1)..Len(s) : IsSpace(s[m])
         IN  SubSeq(s, lo, hi)

\* `if not s`: None and the empty string
Falsy(s) == s = PyNone \/ s = <<>>

\* A plausible slip: trimming before the punctuation is replaced, so that a
\* leading or trailing space made by the replacement survives.
normalize_text_hard_StripFirst(s) ==
    IF Falsy(s) THEN <<>>
    ELSE LET s1 == StripMn(NFD(s))
             s2 == Strip(LowerStr(s1))
             s3 == SubRuns(s2, NotAlnum(s2))
         IN  SubRuns(s3, Spaces(s3))

normalize_text_hard(s) ==
    IF Falsy(s) THEN <<>>
    ELSE LET s1 == StripMn(NFD(s))
             s2 == SubRuns(s1, NotAlnum(s1))
             s3 == Strip(LowerStr(s2))
         IN  SubRuns(s3, Spaces(s3))

(***************************************************************************)
(* Regular expressions.  A pattern is a set of alternatives (the ways its  *)
(* optional groups can be taken); an alternative is a sequence of items,   *)
(* each a character class, taken once or one or more times.                *)
(***************************************************************************)
W_certificad == <<"c","e","r","t","i","f","i","c","a","d">>
W_de == <<"d","e">>
W_aptitud == <<"a","p","t","i","t","u","d">>
W_ocupacional == <<"o","c","u","p","a","c","i","o","n","a","l">>
W_informe == <<"i","n","f","o","r","m","e">>
W_medic == <<"m","e","d","i","c">>

Lit(word) == [k \in 1..Len(word) |-> [cls |-> {word[k]}, plus |-> FALSE]]
OneOf(chars) == <<[cls |-> chars, plus |-> FALSE]>>
\* \s+
WS == <<[cls |-> WhitespaceChars, plus |-> TRUE]>>
\* certificad[oa]
R_certificado == Lit(W_certificad) \o OneOf({"o", "a"})
\* m[eé]dic
R_medic == Lit(<<"m">>) \o OneOf({"e", "U+00E9"}) \o Lit(<<"d","i","c">>)
\* m[eé]dic[ao]
R_medicao == R_medic \o OneOf({"a", "o"})
R_de == Lit(W_de)
R_aptitud == Lit(W_aptitud)
R_ocupacional == Lit(W_ocupacional)

\* PAT_INFO, line 21: informe\s+m[eé]dico(?:\s+ocupacional)?
PAT_INFO ==
    { Lit(W_informe) \o WS \o R_medic \o Lit(<<"o">>),
      Lit(W_informe) \o WS \o R_medic \o Lit(<<"o">>) \o WS \o R_ocupacional }

\* PAT_CERT_TITLES, lines 24-32
PAT_CERT_TITLES == <<
    { R_certificado \o WS \o R_de \o WS \o R_aptitud \o WS \o R_medicao \o WS \o R_ocupacional },
    { R_certificado \o WS \o R_medicao \o WS \o R_ocupacional \o WS \o R_de \o WS \o R_aptitud },
    { R_certificado \o WS \o R_de \o WS \o R_aptitud \o WS \o R_ocupacional },
    { R_certificado \o WS \o R_ocupacional \o WS \o R_de \o WS \o R_aptitud },
    { R_certificado \o WS \o R_medicao \o WS \o R_de \o WS \o R_aptitud },
    { R_certificado \o WS \o R_de \o WS \o R_aptitud \o WS \o R_medicao },
    { R_certificado \o WS \o R_aptitud,
      R_certificado \o WS \o R_de \o WS \o R_aptitud } >>

\* The positions at which a match of items k.. that starts at position p of s
\* can end (the position after its last character).
RECURSIVE MatchEnds(_, _, _, _)
MatchEnds(items, k, s, p) ==
    IF k > Len(items) THEN {p}
    ELSE IF p > Len(s) \/ s[p] \notin items[k].cls THEN {}
    ELSE IF items[k].plus
         THEN MatchEnds(items, k, s, p + 1) \cup MatchEnds(items, k + 1, s, p + 1)
         ELSE MatchEnds(items, k + 1, s, p + 1)

\* \b between positions p-1 and p of s
WordAt(s, p) == p >= 1 /\ p <= Len(s) /\ IsWordChar(s[p])
WordBoundary(s, p) == WordAt(s, p - 1) # WordAt(s, p)

\* re.search(pattern, s)
re_search(pattern, s) ==
    \E alt \in pattern : \E p \in 1..Len(s) : MatchEnds(alt, 1, s, p) # {}

\* re.search(rf"^\s*{pattern}\b", s), line 61
re_search_start(pattern, s) ==
    \E alt \in pattern : \E p \in 1..Len(s) :
        /\ \A q \in 1..(p - 1) : IsSpace(s[q])
        /\ \E e \in MatchEnds(alt, 1, s, p) : WordBoundary(s, e)

\* the occurrences of word in s as a substring: the positions where they start
Occurrences(word, s) ==
    {p \in 1..(Len(s) - Len(word) + 1) : \A k \in 1..Len(word) : s[p + k - 1] = word[k]}

\* `word in s`
Contains(word, s) == Occurrences(word, s) # {}

\* re.search(rf"\b{word}\b", s)
re_search_word(word, s) ==
    \E p \in Occurrences(word, s) :
        WordBoundary(s, p) /\ WordBoundary(s, p + Len(word))

(***************************************************************************)
(* Lines of a page, lines 47-72.                                           *)
(***************************************************************************)
\* sorted(S) for a set of integers
sorted(S) ==
    [j \in 1..Cardinality(S) |->
        CHOOSE x \in S : Cardinality({y \in S : y < x}) = j - 1]

LineBreakChars == {"\n", "\r"}

\* str.splitlines(): "\r\n" is one line break, and a line break that ends the
\* text opens no further line
splitlines(s) ==
    LET isEnd(k) == /\ s[k] \in LineBreakChars
                    /\ ~(s[k] = "\r" /\ k < Len(s) /\ s[k + 1] = "\n")
        ends == sorted({k \in 1..Len(s) : isEnd(k)})
        from(j) == IF j = 1 THEN 1 ELSE ends[j - 1] + 1
        upto(j) == IF s[ends[j]] = "\n" /\ ends[j] > from(j) /\ s[ends[j] - 1] = "\r"
                   THEN ends[j] - 2 ELSE ends[j] - 1
        closed == [j \in 1..Len(ends) |-> SubSeq(s, from(j), upto(j))]
        rest == IF Len(ends) = 0 THEN s ELSE SubSeq(s, ends[Len(ends)] + 1, Len(s))
    IN  IF rest = <<>> THEN closed ELSE Append(closed, rest)

\* `text or ""`
OrEmpty(text) == IF Falsy(text) THEN <<>> ELSE text

first_nonempty_lines(text, k) ==
    LET lines == splitlines(OrEmpty(text))
        norm == [j \in 1..Len(lines) |-> normalize_text_hard(lines[j])]
        nonempty(n) == n # <<>>
        out == SelectSeq(norm, nonempty)
    IN  IF Len(out) >= k THEN SubSeq(out, 1, k) ELSE out

\* A plausible slip: the fall-through result of the loop is True instead of
\* False, so a page without a matching line still counts as having the title.
has_title_in_lines_DefaultTrue(text, pattern, strict_start) ==
    LET lines == first_nonempty_lines(text, TOP_LINES_K)
    IN  \/ \E j \in 1..Len(lines) :
              IF strict_start THEN re_search_start(pattern, lines[j])
                              ELSE re_search(pattern, lines[j])
        \/ TRUE

has_title_in_lines(text, pattern, strict_start) ==
    LET lines == first_nonempty_lines(text, TOP_LINES_K)
    IN  \E j \in 1..Len(lines) :
            IF strict_start THEN re_search_start(pattern, lines[j])
                            ELSE re_search(pattern, lines[j])

\* token_pat is always \baptitud\b: the operator takes the word between the \b
has_token_in_top_lines(text, token, k) ==
    LET lines == first_nonempty_lines(text, k)
    IN  \E j \in 1..Len(lines) : re_search_word(token, lines[j])

(***************************************************************************)
(* search_cert_proximity, lines 74-97.                                     *)
(***************************************************************************)
Min(a, b) == IF a <= b THEN a ELSE b

\* The matches of \bcertificad\w*\b in s (re.finditer), each as the position
\* of its last character: m.end() counted from 0.
AnchorEnds(s) ==
    { CHOOSE e \in p..Len(s) :
          /\ \A q \in p..e : IsWordChar(s[q])
          /\ ~WordAt(s, e + 1)
      : p \in {q \in Occurrences(W_certificad, s) : WordBoundary(s, q)} }

\* A plausible slip: a window centred on the anchor's end instead of one that
\* starts there, so that text before the anchor is inspected too.
Window_Centred(s, e) ==
    SubSeq(s, IF e + 1 > CERT_NEAR_WINDOW THEN e + 1 - CERT_NEAR_WINDOW ELSE 1,
              Min(Len(s), e + CERT_NEAR_WINDOW))

\* full_norm[start:start + CERT_NEAR_WINDOW] with start = m.end()
Window(s, e) == SubSeq(s, e + 1, Min(Len(s), e + CERT_NEAR_WINDOW))

\* line 79
has_mod(full_norm) == Contains(W_medic, full_norm) \/ Contains(W_ocupacional, full_norm)

\* loop A, lines 84-88
ProximityA(full_norm) ==
    \E e \in AnchorEnds(full_norm) : re_search_word(W_aptitud, Window(full_norm, e))

\* loop B, lines 91-95
ProximityB(full_norm) ==
    \E e \in AnchorEnds(full_norm) :
        LET window == Window(full_norm, e)
        IN  /\ Contains(W_medic, window) \/ Contains(W_ocupacional, window)
            /\ re_search_word(W_aptitud, window)

search_cert_proximity(full_norm) ==
    IF ~has_mod(full_norm) THEN FALSE
    ELSE IF ProximityA(full_norm) THEN TRUE
    ELSE IF ProximityB(full_norm) THEN TRUE
    ELSE FALSE

(***************************************************************************)
(* is_cert_page and is_info_page, lines 100-133.  The two switches of the  *)
(* Config block are read where the code reads them.                        *)
(***************************************************************************)
is_cert_page(text) ==
    \* 1) first lines
    \/ \E k \in 1..Len(PAT_CERT_TITLES) :
           has_title_in_lines(text, PAT_CERT_TITLES[k], STRICT_START)
    \* 2) fallback on the whole text
    \/ /\ RELAXED_FALLBACK
       /\ LET full == normalize_text_hard(OrEmpty(text))
          IN  \/ \E k \in 1..Len(PAT_CERT_TITLES) : re_search(PAT_CERT_TITLES[k], full)
              \/ search_cert_proximity(full)
    \* 3) "aptitud" in the top lines, with context
    \/ LET full_norm == normalize_text_hard(OrEmpty(text))
           aptitud_top == has_token_in_top_lines(text, W_aptitud, TOP_LINES_K)
           has_cert_word == Contains(W_certificad, full_norm)
           has_context == Contains(W_medic, full_norm) \/ Contains(W_ocupacional, full_norm)
       IN  aptitud_top /\ (has_cert_word \/ has_context)

is_info_page(text) ==
    \/ has_title_in_lines(text, PAT_INFO, STRICT_START)
    \/ /\ RELAXED_FALLBACK
       /\ re_search(PAT_INFO, normalize_text_hard(OrEmpty(text)))

(***************************************************************************)
(* The texts a page can yield.  extract_text() returns a text or None, or  *)
(* raises.                                                                 *)
(***************************************************************************)
ExtractRaises == <<"<raise>">>

\* a certificate title on the first line:
\* "CERTIFICADO DE APTITUD M<U+00C9>DICA OCUPACIONAL\nApto"
T_cert_title ==
    <<"C","E","R","T","I","F","I","C","A","D","O"," ","D","E"," ","A","P",
      "T","I","T","U","D"," ","M","U+00C9","D","I","C","A"," ","O","C","U",
      "P","A","C","I","O","N","A","L","\n","A","p","t","o">>

\* a report title on the first line:
\* "Informe M<U+00E9>dico Ocupacional\nPaciente 7"
T_info_title ==
    <<"I","n","f","o","r","m","e"," ","M","U+00E9","d","i","c","o"," ","O",
      "c","u","p","a","c","i","o","n","a","l","\n","P","a","c","i","e","n",
      "t","e"," ","7">>

\* a report title and a certificate title:
\* "INFORME M<U+00C9>DICO\nCertificado de Aptitud"
T_both ==
    <<"I","N","F","O","R","M","E"," ","M","U+00C9","D","I","C","O","\n","C",
      "e","r","t","i","f","i","c","a","d","o"," ","d","e"," ","A","p","t",
      "i","t","u","d">>

\* neither title: "Historia\nPaciente: 123"
T_history ==
    <<"H","i","s","t","o","r","i","a","\n","P","a","c","i","e","n","t","e",
      ":"," ","1","2","3">>

\* no title; certificad ... aptitud near each other:
\* "Certificado N<U+00B0> 123\nEl trabajador presenta aptitud m<U+00E9>dica"
T_prox ==
    <<"C","e","r","t","i","f","i","c","a","d","o"," ","N","U+00B0"," ","1",
      "2","3","\n","E","l"," ","t","r","a","b","a","j","a","d","o","r"," ",
      "p","r","e","s","e","n","t","a"," ","a","p","t","i","t","u","d"," ",
      "m","U+00E9","d","i","c","a">>

\* a report title that does not start its line:
\* "Anexo: informe m<U+00E9>dico"
T_info_inner ==
    <<"A","n","e","x","o",":"," ","i","n","f","o","r","m","e"," ","m",
      "U+00E9","d","i","c","o">>

\* TOP_LINES_K lines of filler and then a report title: the title is beyond
\* the lines that are inspected
T_info_late ==
    [k \in 1..(2 * TOP_LINES_K) |-> IF k % 2 = 1 THEN "x" ELSE "\n"]
    \o <<"I","n","f","o","r","m","e"," ","m","e","d","i","c","o">>

SampleTexts ==
    { <<>>, T_cert_title, T_info_title, T_both, T_history,
      T_prox, T_info_inner, T_info_late }

PageOutcomes == SampleTexts \cup {PyNone, ExtractRaises}

(***************************************************************************)
(* classify_pages, lines 135-158.                                          *)
(***************************************************************************)
\* line 143 and the record of the two answers: info is False when cert holds
Flags(cert_, text) ==
    [cert |-> cert_, info |-> IF cert_ THEN FALSE ELSE is_info_page(text)]

\* the same with CERT and INFORME swapped
FlagsSwapped(info_, text) ==
    [cert |-> IF info_ THEN FALSE ELSE is_cert_page(text), info |-> info_]

\* lines 141-143, with CERT and INFORME swapped: the report is tested first
\* and the certificate only when the page is no report.
PageFlags_InfoFirst(outcome) ==
    FlagsSwapped(is_info_page(OrEmpty(outcome)), OrEmpty(outcome))

\* lines 141-143: text = page.extract_text() or ""; cert; info
PageFlags(outcome) ==
    Flags(is_cert_page(OrEmpty(outcome)), OrEmpty(outcome))

\* the decimal digits of n, most significant first
RECURSIVE Digits(_)
Digits(n) == IF n < 10 THEN <<n>> ELSE Append(Digits(n \div 10), n % 10)

\* f"{n:03d}": at least three digits, padded with zeros on the left
Format03d(n) ==
    LET d == Digits(n)
    IN  IF Len(d) >= 3 THEN d ELSE [k \in 1..(3 - Len(d)) |-> 0] \o d

\* A plausible slip: the 0-based index printed instead of the ordinal.
LabelLine_ZeroBased(idx, category) ==
    [kind |-> "label", num |-> Format03d(idx), text |-> category]

\* f"p.{i+1:03d} => {category}"
LabelLine(idx, category) ==
    [kind |-> "label", num |-> Format03d(idx + 1), text |-> category]

\* f"[ajuste] {n} págs quitadas de INFORME por solape con CERT."
AdjustLine(n) ==
    [kind |-> "ajuste", num |-> Digits(n), text |-> "quitadas de INFORME por solape con CERT"]

\* A plausible slip: the adjustment is logged whether or not pages overlap.
OverlapLog_Always(log, overlap) == Append(log, AdjustLine(Cardinality(overlap)))

\* lines 154-156, the log
OverlapLog(log, overlap) ==
    IF overlap # {} THEN Append(log, AdjustLine(Cardinality(overlap))) ELSE log

(***************************************************************************)
(* write_pdf_to_bytes, lines 161-171.  The bytes of a PDF are modelled by  *)
(* its magic number and the page indices it holds; b"" is EmptyBytes.      *)
(***************************************************************************)
EmptyBytes == [magic |-> "", pages |-> <<>>]

\* A plausible slip: no early return, so an empty index list yields a PDF
\* without pages.
write_pdf_to_bytes_NoGuard(idxs) == [magic |-> "%PDF", pages |-> idxs]

write_pdf_to_bytes(idxs) ==
    IF idxs = <<>> THEN EmptyBytes ELSE [magic |-> "%PDF", pages |-> idxs]

\* the truth value of a bytes object
Truthy(bytes) == bytes # EmptyBytes

(***************************************************************************)
(* The run of the script for one upload, lines 178-271.                    *)
(***************************************************************************)
NoUpload == [present |-> FALSE, readable |-> FALSE, npages |-> 0]

\* A plausible slip: the residual takes out the certificate pages only.
Residual_CertOnly(all_set, cs, is) == all_set \ cs

\* line 192
Residual(all_set, cs, is) == (all_set \ cs) \ is

\* A plausible slip: the dossier merged by page index.
Legajo_Merged(c, n, h) == sorted(Range(c) \cup Range(n) \cup Range(h))

\* line 202: cert + info + hist
Legajo(c, n, h) == c \o n \o h

\* The state before an upload.  STRICT_START and RELAXED_FALLBACK are set in
\* the Config block (lines 13-14, shipped as False and True); a run reads them
\* and never writes them, and every setting of the two is explored.
RunInit ==
    /\ pc = "idle"
    /\ STRICT_START \in BOOLEAN
    /\ RELAXED_FALLBACK \in BOOLEAN
    /\ uploaded = NoUpload
    /\ total = 0
    /\ i = 0
    /\ extracted = <<>>
    /\ cert_set = {} /\ info_set = {} /\ labels_log = <<>>
    /\ hist_set = {} /\ cert = <<>> /\ info = <<>> /\ hist = <<>>
    /\ pdf_cert = EmptyBytes /\ pdf_info = EmptyBytes
    /\ pdf_hist = EmptyBytes /\ pdf_legajo = EmptyBytes
    /\ offered = <<>>
    /\ zip_entries = <<>>
    /\ messages = <<>>

\* line 178: the user attaches a file, a PDF of up to MaxPages pages or a file
\* that is no PDF
Upload ==
    /\ pc = "idle"
    /\ \E readable \in BOOLEAN : \E n \in 0..MaxPages :
          /\ (~readable => n = 0)
          /\ uploaded' = [present |-> TRUE, readable |-> readable, npages |-> n]
    /\ pc' = "open"
    /\ UNCHANGED <<STRICT_START, RELAXED_FALLBACK, total, i, extracted,
                   cert_set, info_set, labels_log, hist_set, cert, info, hist,
                   pdf_cert, pdf_info, pdf_hist, pdf_legajo, offered,
                   zip_entries, messages>>

\* lines 181-187, and 136-138; PdfReader raises on a file that is no PDF
\* (lines 268-269)
OpenPdf ==
    /\ pc = "open"
    /\ IF uploaded.readable
       THEN /\ total' = uploaded.npages
            /\ messages' = Append(messages, "info")
            /\ pc' = "classify"
       ELSE /\ total' = total
            /\ messages' = Append(messages, "error")
            /\ pc' = "error"
    /\ i' = 0
    /\ cert_set' = {} /\ info_set' = {} /\ labels_log' = <<>>
    /\ UNCHANGED <<STRICT_START, RELAXED_FALLBACK, uploaded, extracted,
                   hist_set, cert, info, hist,
                   pdf_cert, pdf_info, pdf_hist, pdf_legajo, offered, zip_entries>>

\* lines 145-150: the page goes to the set its flags name, and its line to
\* the log
AddPage(f) ==
    IF f.cert
    THEN /\ cert_set' = cert_set \cup {i}
         /\ info_set' = info_set
         /\ labels_log' = Append(labels_log, LabelLine(i, "CERTIFICADO"))
    ELSE IF f.info
    THEN /\ cert_set' = cert_set
         /\ info_set' = info_set \cup {i}
         /\ labels_log' = Append(labels_log, LabelLine(i, "INFORME"))
    ELSE /\ cert_set' = cert_set
         /\ info_set' = info_set
         /\ labels_log' = Append(labels_log, LabelLine(i, "OTROS"))

\* ClassifyPage with a failed extraction swallowed: the page is logged as
\* OTROS and the loop goes on.
ClassifyPage_SkipFailed ==
    /\ pc = "classify"
    /\ i < total
    /\ \E outcome \in PageOutcomes :
          /\ extracted' = Append(extracted, outcome)
          /\ IF outcome = ExtractRaises
             THEN AddPage([cert |-> FALSE, info |-> FALSE])
             ELSE AddPage(PageFlags(outcome))
    /\ i' = i + 1
    /\ UNCHANGED <<pc, messages>>
    /\ UNCHANGED <<STRICT_START, RELAXED_FALLBACK, uploaded, total,
                   hist_set, cert, info, hist,
                   pdf_cert, pdf_info, pdf_hist, pdf_legajo, offered, zip_entries>>

\* one iteration of the loop of lines 140-150; an exception of extract_text
\* leaves the try block (lines 268-269)
ClassifyPage ==
    /\ pc = "classify"
    /\ i < total
    /\ \E outcome \in PageOutcomes :
          /\ extracted' = Append(extracted, outcome)
          /\ IF outcome = ExtractRaises
             THEN /\ messages' = Append(messages, "error")
                  /\ pc' = "error"
                  /\ UNCHANGED <<i, cert_set, info_set, labels_log>>
             ELSE /\ AddPage(PageFlags(outcome))
                  /\ i' = i + 1
                  /\ UNCHANGED <<pc, messages>>
    /\ UNCHANGED <<STRICT_START, RELAXED_FALLBACK, uploaded, total,
                   hist_set, cert, info, hist,
                   pdf_cert, pdf_info, pdf_hist, pdf_legajo, offered, zip_entries>>

\* lines 152-158: the loop is over; the overlap is taken out of info_set
OverlapPass ==
    /\ pc = "classify"
    /\ i = total
    /\ LET overlap == cert_set \cap info_set
       IN  /\ info_set' = info_set \ overlap
           /\ labels_log' = OverlapLog(labels_log, overlap)
    /\ pc' = "assemble"
    /\ UNCHANGED <<STRICT_START, RELAXED_FALLBACK, uploaded, total, i, extracted,
                   cert_set, hist_set, cert, info, hist,
                   pdf_cert, pdf_info, pdf_hist, pdf_legajo, offered,
                   zip_entries, messages>>

\* lines 190-202
Assemble ==
    /\ pc = "assemble"
    /\ LET all_set == 0..(total - 1)
           hs == Residual(all_set, cert_set, info_set)
       IN  /\ hist_set' = hs
           /\ cert' = sorted(cert_set)
           /\ info' = sorted(info_set)
           /\ hist' = sorted(hs)
           /\ pdf_cert' = write_pdf_to_bytes(sorted(cert_set))
           /\ pdf_info' = write_pdf_to_bytes(sorted(info_set))
           /\ pdf_hist' = write_pdf_to_bytes(sorted(hs))
           /\ pdf_legajo' = write_pdf_to_bytes(
                                Legajo(sorted(cert_set), sorted(info_set), sorted(hs)))
    /\ pc' = "offer"
    /\ UNCHANGED <<STRICT_START, RELAXED_FALLBACK, uploaded, total, i, extracted,
                   cert_set, info_set, labels_log, offered, zip_entries, messages>>

\* a download button, or nothing when the data is empty
Button(file_name, data) ==
    IF Truthy(data) THEN <<[file_name |-> file_name, data |-> data]>> ELSE <<>>

\* lines 205-238: the four download buttons, in the order of the script
OfferDownloads ==
    /\ pc = "offer"
    /\ offered' = offered
                  \o Button("certificado_de_aptitud_all.pdf", pdf_cert)
                  \o Button("historia_clinica_all.pdf", pdf_hist)
                  \o Button("informe_medico_all.pdf", pdf_info)
                  \o Button("legajo.pdf", pdf_legajo)
    /\ pc' = "zip"
    /\ UNCHANGED <<STRICT_START, RELAXED_FALLBACK, uploaded, total, i, extracted,
                   cert_set, info_set, labels_log, hist_set, cert, info, hist,
                   pdf_cert, pdf_info, pdf_hist, pdf_legajo, zip_entries, messages>>

\* lines 241-266: the archive (SHOW_DEBUG is False), its download button and
\* the warning for a document without titles
ZipAll ==
    /\ pc = "zip"
    /\ LET z == Button("certificado_de_aptitud_all.pdf", pdf_cert)
                \o Button("informe_medico_all.pdf", pdf_info)
                \o Button("historia_clinica_all.pdf", pdf_hist)
                \o Button("legajo.pdf", pdf_legajo)
       IN  /\ zip_entries' = z
           /\ offered' = Append(offered, [file_name |-> "clasificados.zip", data |-> z])
    /\ messages' = IF Len(cert) + Len(info) = 0
                   THEN Append(messages, "warning") ELSE messages
    /\ pc' = "done"
    /\ UNCHANGED <<STRICT_START, RELAXED_FALLBACK, uploaded, total, i, extracted,
                   cert_set, info_set, labels_log, hist_set, cert, info, hist,
                   pdf_cert, pdf_info, pdf_hist, pdf_legajo>>

\* no upload, and the Config block as shipped
RunIdle ==
    /\ pc = "idle"
    /\ STRICT_START = FALSE
    /\ RELAXED_FALLBACK = TRUE
    /\ uploaded = NoUpload
    /\ total = 0
    /\ i = 0
    /\ extracted = <<>>
    /\ cert_set = {} /\ info_set = {} /\ labels_log = <<>>
    /\ hist_set = {} /\ cert = <<>> /\ info = <<>> /\ hist = <<>>
    /\ pdf_cert = EmptyBytes /\ pdf_info = EmptyBytes
    /\ pdf_hist = EmptyBytes /\ pdf_legajo = EmptyBytes
    /\ offered = <<>>
    /\ zip_entries = <<>>
    /\ messages = <<>>

NormIdle ==
    /\ norm_pc = "idle"
    /\ norm_in = <<>>
    /\ norm_once = <<>>
    /\ norm_twice = <<>>

ProxIdle ==
    /\ prox_pc = "idle"
    /\ prox_in = <<>>
    /\ prox_out = FALSE

Init == RunInit /\ NormIdle /\ ProxIdle

Next ==
    \/ Upload /\ UNCHANGED <<normVars, proxVars>>
    \/ OpenPdf /\ UNCHANGED <<normVars, proxVars>>
    \/ ClassifyPage /\ UNCHANGED <<normVars, proxVars>>
    \/ OverlapPass /\ UNCHANGED <<normVars, proxVars>>
    \/ Assemble /\ UNCHANGED <<normVars, proxVars>>
    \/ OfferDownloads /\ UNCHANGED <<normVars, proxVars>>
    \/ ZipAll /\ UNCHANGED <<normVars, proxVars>>

Spec == Init /\ [][Next]_vars

(***************************************************************************)
(* normalize_text_hard on every short string over a small alphabet, and on *)
(* None; then on its own result.                                           *)
(***************************************************************************)
Strings(chars, n) == UNION {[1..k -> chars] : k \in 0..n}

\* a lowercase letter, an uppercase letter, a digit, a space, a line break,
\* a punctuation mark, an accented letter, a lone combining accent and the
\* degree sign
NormAlphabet == {"a", "B", "7", " ", "\n", ".", "U+00E9", "U+0301", "U+00B0"}

NormInputs == Strings(NormAlphabet, MaxLen) \cup {PyNone}

NormInit ==
    /\ norm_pc = "input"
    /\ norm_in \in NormInputs
    /\ norm_once = <<>>
    /\ norm_twice = <<>>

NormalizeOnce ==
    /\ norm_pc = "input"
    /\ norm_once' = normalize_text_hard(norm_in)
    /\ norm_pc' = "once"
    /\ UNCHANGED <<norm_in, norm_twice>>

NormalizeAgain ==
    /\ norm_pc = "once"
    /\ norm_twice' = normalize_text_hard(norm_once)
    /\ norm_pc' = "twice"
    /\ UNCHANGED <<norm_in, norm_once>>

NormNext ==
    \/ NormalizeOnce /\ UNCHANGED <<runVars, proxVars>>
    \/ NormalizeAgain /\ UNCHANGED <<runVars, proxVars>>

InitNorm == RunIdle /\ NormInit /\ ProxIdle

SpecNorm == InitNorm /\ [][NormNext]_vars

(***************************************************************************)
(* search_cert_proximity on normalized page texts: up to MaxWords words    *)
(* joined by single spaces.  The filler word is as long as it takes for    *)
(* "aptitud" after it to end on the last character of the window.          *)
(***************************************************************************)
W_filler == [k \in 1..(CERT_NEAR_WINDOW - Len(W_aptitud) - 2) |-> "x"]

ProxWords ==
    { W_certificad \o <<"o">>,
      <<"r","e">> \o W_certificad \o <<"o">>,
      W_aptitud,
      W_aptitud \o <<"e","s">>,
      W_medic \o <<"a">>,
      W_ocupacional,
      W_filler }

RECURSIVE JoinWords(_)
JoinWords(ws) ==
    IF Len(ws) = 0 THEN <<>>
    ELSE IF Len(ws) = 1 THEN ws[1]
    ELSE ws[1] \o <<" ">> \o JoinWords(Tail(ws))

ProxInputs == {JoinWords(ws) : ws \in Strings(ProxWords, MaxWords)}

ProxInit ==
    /\ prox_pc = "input"
    /\ prox_in \in ProxInputs
    /\ prox_out = FALSE

ProxSearch ==
    /\ prox_pc = "input"
    /\ prox_out' = search_cert_proximity(prox_in)
    /\ prox_pc' = "done"
    /\ UNCHANGED prox_in

ProxNext == ProxSearch /\ UNCHANGED <<runVars, normVars>>

InitProx == RunIdle /\ NormIdle /\ ProxInit

SpecProx == InitProx /\ [][ProxNext]_vars

(***************************************************************************)
(* Properties.                                                             *)
(***************************************************************************)
\* the page indices of the document
AllPages == 0..(total - 1)

\* the run is past lines 190-202: the residual and the four documents exist
Assembled == pc \in {"offer", "zip", "done"}

\* the text of page j as classify_pages saw it
TextOf(j) == OrEmpty(extracted[j + 1])

\* the text of page j passes both classifiers, each asked on its own
IsBoth(j) == is_info_page(TextOf(j)) /\ is_cert_page(TextOf(j))

\* the pages read so far that pass both
BothPages == {j \in 0..(i - 1) : IsBoth(j)}

Ascending(seq) == \A a, b \in 1..Len(seq) : a < b => seq[a] < seq[b]

\* the number a sequence of decimal digits writes
RECURSIVE DecValue(_)
DecValue(d) ==
    IF Len(d) = 0 THEN 0 ELSE 10 * DecValue(SubSeq(d, 1, Len(d) - 1)) + d[Len(d)]

LabelLines == LET isLabel(l) == l.kind = "label" IN SelectSeq(labels_log, isLabel)
AdjustLines == LET isAdjust(l) == l.kind = "ajuste" IN SelectSeq(labels_log, isAdjust)

\* C1: once classify_pages has returned and the residual is computed, the
\* sets CERTIFICATE, REPORT and OTHER are pairwise disjoint and their union is
\* {0..N-1}: every page index is in exactly one of them.
ClaimPartition ==
    Assembled =>
        /\ cert_set \cap info_set = {}
        /\ cert_set \cap hist_set = {}
        /\ info_set \cap hist_set = {}
        /\ cert_set \cup info_set \cup hist_set = AllPages
        /\ \A j \in AllPages :
              Cardinality({S \in {"c", "n", "h"} :
                              \/ S = "c" /\ j \in cert_set
                              \/ S = "n" /\ j \in info_set
                              \/ S = "h" /\ j \in hist_set}) = 1

\* a finished run of a three-page document with a page in each category
WitnessPartition ==
    pc = "done" /\ total = 3 /\ cert_set # {} /\ info_set # {} /\ hist_set # {}

\* C2: a page whose text passes is_cert_page and is_info_page, each evaluated
\* on its own, ends as CERTIFICATE: its index is in cert_set, not in info_set
\* and not in the residual.
ClaimCertPriority ==
    pc = "done" =>
        \A j \in AllPages :
            IsBoth(j) => j \in cert_set /\ j \notin info_set /\ j \notin hist_set

\* a finished run with a page that passes both classifiers, next to a page
\* that is a report only
WitnessCertPriority ==
    /\ pc = "done"
    /\ \E j \in AllPages : IsBoth(j)
    /\ info_set # {}

\* C3: the dossier holds the ascending CERTIFICATE indices, then the ascending
\* REPORT indices, then the ascending OTHER indices, and is a permutation of
\* 0..N-1: every page exactly once.
ClaimLegajoOrder ==
    Assembled =>
        LET L == pdf_legajo.pages
        IN  /\ L = cert \o info \o hist
            /\ Range(cert) = cert_set /\ Ascending(cert)
            /\ Range(info) = info_set /\ Ascending(info)
            /\ Range(hist) = hist_set /\ Ascending(hist)
            /\ Len(L) = total
            /\ \A j \in AllPages : Cardinality({k \in 1..Len(L) : L[k] = j}) = 1

\* Scenario 5: the pages arrive as OTHER, CERTIFICATE, REPORT and the dossier
\* is CERTIFICATE, REPORT, OTHER
WitnessLegajoOrder ==
    pc = "done" /\ pdf_legajo.pages = <<1, 2, 0>> /\ cert = <<1>> /\ info = <<2>>

\* C4 as written: when pages match both a certificate pattern and the report
\* pattern, the log of the finished classification holds an adjustment entry
\* whose count is the number of such pages, and they are not in the REPORT set.
ClaimOverlapAdjusted ==
    (pc \in {"assemble", "offer", "zip", "done"} /\ BothPages # {}) =>
        /\ BothPages \cap info_set = {}
        /\ \E k \in 1..Len(labels_log) :
              /\ labels_log[k].kind = "ajuste"
              /\ DecValue(labels_log[k].num) = Cardinality(BothPages)

\* C4, amended: a page that matches both a certificate pattern and the report
\* pattern is not in the REPORT set when the overlap pass starts (it was put
\* in CERTIFICATE only), the two sets are disjoint at every moment, so the pass
\* removes nothing, and the log never holds an adjustment entry.
ClaimNoOverlapEver ==
    /\ cert_set \cap info_set = {}
    /\ AdjustLines = <<>>
    /\ (pc = "classify" /\ i = total) =>
          \A j \in AllPages : IsBoth(j) => j \in cert_set /\ j \notin info_set

\* a finished run of a document with a page that matches both
WitnessNoOverlapEver == pc = "done" /\ BothPages # {}

\* C5: a page whose extracted text is empty, or None, is OTHER under every
\* setting of STRICT_START and RELAXED_FALLBACK: is_cert_page and is_info_page
\* are false on it and it is in neither cert_set nor info_set.
ClaimEmptyIsOther ==
    \A j \in 0..(i - 1) :
        Falsy(extracted[j + 1]) =>
            /\ ~is_cert_page(TextOf(j))
            /\ ~is_info_page(TextOf(j))
            /\ j \notin cert_set
            /\ j \notin info_set
            /\ Assembled => j \in hist_set

\* a finished run, under switches other than the shipped ones, of a document
\* with an empty page and a page whose text is None
WitnessEmptyIsOther ==
    /\ pc = "done"
    /\ STRICT_START /\ ~RELAXED_FALLBACK
    /\ \E j, k \in AllPages :
          extracted[j + 1] = <<>> /\ extracted[k + 1] = PyNone /\ {j, k} \subseteq hist_set

\* the file could not be opened, or extract_text raised on a page
RunFailed ==
    \/ pc # "open" /\ uploaded.present /\ ~uploaded.readable
    \/ \E k \in 1..Len(extracted) : extracted[k] = ExtractRaises

\* C6: if opening the document or extracting a page's text fails, the run ends
\* in one error outcome and delivers nothing: none of the four documents, no
\* archive, however many pages were classified before.
ClaimFailureDeliversNothing ==
    /\ RunFailed =>
          /\ pc = "error"
          /\ offered = <<>>
          /\ zip_entries = <<>>
          /\ pdf_cert = EmptyBytes /\ pdf_info = EmptyBytes
          /\ pdf_hist = EmptyBytes /\ pdf_legajo = EmptyBytes
          /\ Cardinality({k \in 1..Len(messages) : messages[k] = "error"}) = 1
          /\ messages[Len(messages)] = "error"
    /\ pc = "error" => RunFailed

\* the extraction fails on the third page, after a certificate and a report
\* were classified
WitnessFailureDeliversNothing ==
    /\ pc = "error"
    /\ Len(extracted) = 3
    /\ cert_set # {} /\ info_set # {}

\* the pages of the document offered for download, or written to the archive,
\* under a file name; <<>> when there is none
PagesUnder(entries, file_name) ==
    LET hits == {k \in 1..Len(entries) : entries[k].file_name = file_name}
    IN  IF hits = {} THEN <<>> ELSE entries[CHOOSE k \in hits : TRUE].data.pages

CountUnder(entries, file_name) ==
    Cardinality({k \in 1..Len(entries) : entries[k].file_name = file_name})

\* C7: each of the four orderings yields a document, offered and added to the
\* archive, if and only if it has at least one page; an empty ordering yields
\* no document and no archive entry, and the run completes without an error.
ClaimDocumentIffPages ==
    pc = "done" =>
        /\ \A o \in { <<cert, pdf_cert, "certificado_de_aptitud_all.pdf">>,
                      <<info, pdf_info, "informe_medico_all.pdf">>,
                      <<hist, pdf_hist, "historia_clinica_all.pdf">>,
                      <<cert \o info \o hist, pdf_legajo, "legajo.pdf">> } :
              /\ (Len(o[1]) > 0) <=> (o[2].magic = "%PDF")
              /\ (Len(o[1]) = 0) <=> (o[2] = EmptyBytes)
              /\ o[2].pages = o[1]
              /\ CountUnder(offered, o[3]) = (IF Len(o[1]) > 0 THEN 1 ELSE 0)
              /\ CountUnder(zip_entries, o[3]) = (IF Len(o[1]) > 0 THEN 1 ELSE 0)
              /\ PagesUnder(offered, o[3]) = o[1]
              /\ PagesUnder(zip_entries, o[3]) = o[1]
        /\ \A k \in 1..Len(messages) : messages[k] # "error"
        /\ CountUnder(offered, "clasificados.zip") = 1

\* a finished run with no certificate page but with report pages
WitnessDocumentIffPages ==
    /\ pc = "done"
    /\ cert = <<>> /\ info # <<>>
    /\ CountUnder(zip_entries, "informe_medico_all.pdf") = 1
    /\ CountUnder(zip_entries, "certificado_de_aptitud_all.pdf") = 0

\* C8: the log holds one label line per page, in page order; the line of page
\* index j carries the ordinal j+1 and the page's final category: CERTIFICADO
\* iff j is in cert_set, INFORME iff in info_set, OTROS iff in the residual.
ClaimLogPerPage ==
    Assembled =>
        /\ Len(LabelLines) = total
        /\ \A j \in AllPages :
              LET line == LabelLines[j + 1]
              IN  /\ DecValue(line.num) = j + 1
                  /\ Len(line.num) >= 3
                  /\ line.text \in {"CERTIFICADO", "INFORME", "OTROS"}
                  /\ line.text = "CERTIFICADO" <=> j \in cert_set
                  /\ line.text = "INFORME" <=> j \in info_set
                  /\ line.text = "OTROS" <=> j \in hist_set

\* a finished run whose log reads INFORME, OTROS, CERTIFICADO
WitnessLogPerPage ==
    /\ pc = "done"
    /\ total = 3
    /\ [k \in 1..3 |-> LabelLines[k].text] = <<"INFORME", "OTROS", "CERTIFICADO">>

\* only lowercase ASCII letters, digits and single spaces, none at either end
Normalized(s) ==
    /\ \A k \in 1..Len(s) : s[k] \in AsciiLower \cup AsciiDigit \cup {" "}
    /\ \A k \in 1..(Len(s) - 1) : ~(s[k] = " " /\ s[k + 1] = " ")
    /\ Len(s) > 0 => (s[1] # " " /\ s[Len(s)] # " ")

\* C9: normalize_text_hard is idempotent, normalize(normalize(x)) =
\* normalize(x) for every x, empty and None included, and its result holds
\* only lowercase ASCII letters, digits and single spaces, none at either end.
ClaimNormalizeIdempotent ==
    /\ norm_pc \in {"once", "twice"} => Normalized(norm_once)
    /\ norm_pc = "twice" => norm_twice = norm_once

\* an input that normalization changes into a text of two words
WitnessNormalizeIdempotent ==
    /\ norm_pc = "twice"
    /\ norm_in # norm_once
    /\ \E k \in 1..Len(norm_once) : norm_once[k] = " "

\* word occurs in s at position p
At(word, s, p) ==
    /\ p >= 1 /\ p + Len(word) - 1 <= Len(s)
    /\ \A k \in 1..Len(word) : s[p + k - 1] = word[k]

\* a word that starts with "certificad" starts at position a of s
AnchorStart(s, a) ==
    /\ At(W_certificad, s, a)
    /\ a = 1 \/ ~IsWordChar(s[a - 1])

\* the word that starts at position a of s ends at position e
WordEnd(s, a, e) ==
    /\ \A q \in a..e : IsWordChar(s[q])
    /\ e = Len(s) \/ ~IsWordChar(s[e + 1])

\* "aptitud" lies as a word in the CERT_NEAR_WINDOW characters after position
\* e of s: it starts after e, ends within the window, is not the tail of a
\* longer word, and is followed by the window's end or by no word character
AptitudAfter(s, e) ==
    \E q \in (e + 1)..(e + CERT_NEAR_WINDOW) :
        /\ At(W_aptitud, s, q)
        /\ q + Len(W_aptitud) - 1 <= e + CERT_NEAR_WINDOW
        /\ ~IsWordChar(s[q - 1])
        /\ \/ q + Len(W_aptitud) > Len(s)
           \/ q + Len(W_aptitud) > e + CERT_NEAR_WINDOW
           \/ ~IsWordChar(s[q + Len(W_aptitud)])

\* C10: search_cert_proximity is true iff "medic" or "ocupacional" occurs in
\* the page and some occurrence of the word certificad* has the word "aptitud"
\* within the CERT_NEAR_WINDOW characters that follow it; it is false without
\* a modifier, text before an anchor adds nothing, and the second loop never
\* changes the result.
ClaimProximity ==
    prox_pc = "done" =>
        /\ prox_out <=>
              /\ \E p \in 1..Len(prox_in) :
                    At(W_medic, prox_in, p) \/ At(W_ocupacional, prox_in, p)
              /\ \E a \in 1..Len(prox_in) :
                    /\ AnchorStart(prox_in, a)
                    /\ \E e \in a..Len(prox_in) :
                          WordEnd(prox_in, a, e) /\ AptitudAfter(prox_in, e)
        /\ prox_out <=> (has_mod(prox_in) /\ ProximityA(prox_in))

\* a match in a text longer than the window: "aptitud" ends on the window's
\* last character
WitnessProximity ==
    /\ prox_pc = "done"
    /\ prox_out
    /\ Len(prox_in) > CERT_NEAR_WINDOW

====
